---------------------------- MODULE Spec2Model ----------------------------
(***************************************************************************)
(* Model of src/app.py: the Streamlit stock-forecasting script.            *)
(*                                                                         *)
(* One run of the script is the body of the "Forecast Stock Prices" button *)
(* (lines 78-131): fetch_stock_data, train_prophet_model, make_forecast,   *)
(* three display blocks, calculate_performance_metrics and the st.metric   *)
(* block.  Calendar dates are day numbers.  A data frame is the sequence   *)
(* of its rows, in row order.  A missing price is NaN.                     *)
(*                                                                         *)
(* The forecast frame is kept in two parts, the history dates (one row     *)
(* each) followed by the block of future days (its first day and its       *)
(* length); ForecastLen, ForecastDs and ForecastYhat read it by row        *)
(* position, ForecastDates lists its ds column.                            *)
(***************************************************************************)
EXTENDS Integers, Sequences, FiniteSets, TLC

\* ---------------------------------------------------------------- bounds
MaxRows == 3
MaxDate == 3
MaxPeriods == 3
MaxEvalRows == 2

\* ------------------------------------------------------------ data model
NaN == 0 - 1

Dates == 1..MaxDate

Prices == {1, 2}

\* one row of the frame yf.download returns (column "Adj Close" by "Date")
StockRows == [Date : Dates, AdjClose : Prices \cup {NaN}]

\* the frames the download can return: any order, duplicates, missing prices
RawInputs == UNION {[1..n -> StockRows] : n \in 0..MaxRows}

Runs == {"A", "B"}

\* the sidebar's horizon selectbox and its conversion to days
horizon_options == {"1 year", "2 years", "3 years", "5 years"}

horizon_mapping ==
    [o \in horizon_options |->
        CASE o = "1 year" -> 365
          [] o = "2 years" -> 730
          [] o = "3 years" -> 1095
          [] o = "5 years" -> 1825]

\* the trend Prophet estimates (growth="linear"): yhat(ds) = m + k * ds.
\* The estimate is a choice among these at fit time.
TrendParams == {[k |-> 0, m |-> 1], [k |-> 1, m |-> 0]}

\* ------------------------------------------------------------- helpers
Abs(x) == IF x < 0 THEN 0 - x ELSE x

Min(S) == CHOOSE x \in S : \A y \in S : x <= y

Max(S) == CHOOSE x \in S : \A y \in S : y <= x

RECURSIVE SortedSeq(_)
\* the elements of a finite set of integers, ascending
SortedSeq(S) ==
    IF S = {} THEN <<>> ELSE <<Min(S)>> \o SortedSeq(S \ {Min(S)})

RECURSIVE SumSeq(_)
SumSeq(s) == IF s = <<>> THEN 0 ELSE Head(s) + SumSeq(Tail(s))

\* ------------------------------------------------ fetch_stock_data (11-15)
\* select "Adj Close", reset_index, rename Date -> ds, Adj Close -> y.
\* Row order and row count are those of the download.
fetch_stock_data(stock_data) ==
    [i \in 1..Len(stock_data) |->
        [ds |-> stock_data[i].Date, y |-> stock_data[i].AdjClose]]

\* --------------------------------------------- train_prophet_model (19-22)
\* Prophet.fit keeps the rows whose y is not null as its history
FitHistory(df) == SelectSeq(df, LAMBDA row : row.y # NaN)

\* variant: a single non-NaN row is accepted
FitRaises_OffByOne(df) == Len(FitHistory(df)) < 1

\* Prophet.fit raises ValueError with fewer than 2 non-NaN rows
FitRaises(df) == Len(FitHistory(df)) < 2

\* Prophet.fit: history_dates = the unique ds of df (all rows), sorted
HistoryDates(df) == SortedSeq({df[i].ds : i \in 1..Len(df)})

\* the fitted model, for a trend estimate p
train_prophet_model(df, p) ==
    [history_dates |-> HistoryDates(df), k |-> p.k, m |-> p.m]

\* variant: the start of the date range is not dropped
make_forecast_KeepStart(model, periods) ==
    LET last_date == Max({model.history_dates[i] :
                             i \in 1..Len(model.history_dates)})
    IN  [history |-> model.history_dates,
         future  |-> [first |-> last_date, count |-> periods],
         k |-> model.k, m |-> model.m]

\* --------------------------------------------------- make_forecast (26-29)
\* make_future_dataframe: date_range(start=last_date, periods=periods+1),
\* without last_date itself, cut to periods, after the history dates;
\* predict gives one row per date, sorted by ds.
make_forecast(model, periods) ==
    LET last_date == Max({model.history_dates[i] :
                             i \in 1..Len(model.history_dates)})
    IN  [history |-> model.history_dates,
         future  |-> [first |-> last_date + 1, count |-> periods],
         k |-> model.k, m |-> model.m]

ForecastLen(f) == Len(f.history) + f.future.count

\* forecast["ds"] at row position i
ForecastDs(f, i) ==
    IF i <= Len(f.history) THEN f.history[i]
    ELSE f.future.first + (i - Len(f.history) - 1)

\* forecast["yhat"] at row position i
ForecastYhat(f, i) == f.m + f.k * ForecastDs(f, i)

\* the ds column of the forecast
ForecastDates(f) == [i \in 1..ForecastLen(f) |-> ForecastDs(f, i)]

\* ----------------------------------- calculate_performance_metrics (33-37)
\* a mean as an exact fraction
Mean(s) == [num |-> SumSeq(s), den |-> Len(s)]

\* np.sqrt of a fraction: its non-negative root, NaN below zero
Sqrt(x) == IF x.num < 0 THEN [radicand |-> [num |-> NaN, den |-> 1]]
           ELSE [radicand |-> x]

\* sklearn.metrics.mean_absolute_error: np.average(np.abs(y_pred - y_true))
mean_absolute_error(actual, predicted) ==
    Mean([i \in 1..Len(actual) |-> Abs(predicted[i] - actual[i])])

\* variant: the errors are not squared
mean_squared_error_Unsquared(actual, predicted) ==
    Mean([i \in 1..Len(actual) |-> actual[i] - predicted[i]])

\* sklearn.metrics.mean_squared_error: np.average((y_true - y_pred) ** 2)
mean_squared_error(actual, predicted) ==
    Mean([i \in 1..Len(actual) |->
            (actual[i] - predicted[i]) * (actual[i] - predicted[i])])

\* sklearn's input validation (_check_reg_targets): ValueError on inputs of
\* different lengths, on no samples, and on NaN
MetricsRaises(actual, predicted) ==
    \/ Len(actual) # Len(predicted)
    \/ Len(actual) = 0
    \/ \E i \in 1..Len(actual) : actual[i] = NaN
    \/ \E i \in 1..Len(predicted) : predicted[i] = NaN

calculate_performance_metrics(actual, predicted) ==
    LET mae == mean_absolute_error(actual, predicted)
        mse == mean_squared_error(actual, predicted)
        rmse == Sqrt(mse)
    IN  [MAE |-> mae, MSE |-> mse, RMSE |-> rmse]

\* ------------------------------------------------------ main, lines 114-115
\* actual = df["y"]
Actual(df) == [i \in 1..Len(df) |-> df[i].y]

\* forecast["yhat"][: len(df)]: the first len(df) rows by position
PredictedLen(df, f) == IF Len(df) <= ForecastLen(f) THEN Len(df) ELSE ForecastLen(f)

Predicted(df, f) == [i \in 1..PredictedLen(df, f) |-> ForecastYhat(f, i)]

\* the rows the metrics pair up: row i of df with row i of the forecast
ScoredPairs(df, f) ==
    [i \in 1..Len(df) |-> [actual_ds |-> df[i].ds, predicted_ds |-> ForecastDs(f, i)]]

\* ------------------------------------------------------------------ state
VARIABLES
    pc,             \* per run: the statement of main the run is at
    stock_data,     \* per run: what yf.download returned
    forecast_days,  \* per run: the horizon in days
    df,             \* per run: the frame of fetch_stock_data
    model,          \* per run: <<>> or <<the fitted model>>
    forecast,       \* per run: <<>> or <<the forecast frame>>
    shown,          \* per run: the outputs written to the page, in order
    metrics,        \* per run: <<>> or <<the metrics dict>>
    scored,         \* per run: the row pairs the metrics were computed on
    calls,          \* per run: the pipeline functions called, in order
    error           \* per run: "none" or the exception that ended the run

vars == <<pc, stock_data, forecast_days, df, model, forecast, shown,
          metrics, scored, calls, error>>

\* the locals of one run of main
RunState(r) == <<pc[r], stock_data[r], forecast_days[r], df[r], model[r],
                 forecast[r], shown[r], metrics[r], scored[r], calls[r],
                 error[r]>>

\* before the button is pressed
Init ==
    /\ pc = [r \in Runs |-> "idle"]
    /\ stock_data = [r \in Runs |-> <<>>]
    /\ forecast_days = [r \in Runs |-> 0]
    /\ df = [r \in Runs |-> <<>>]
    /\ model = [r \in Runs |-> <<>>]
    /\ forecast = [r \in Runs |-> <<>>]
    /\ shown = [r \in Runs |-> <<>>]
    /\ metrics = [r \in Runs |-> <<>>]
    /\ scored = [r \in Runs |-> <<>>]
    /\ calls = [r \in Runs |-> <<>>]
    /\ error = [r \in Runs |-> "none"]

\* variant: df is one module-level frame that every run writes
StoreDf_Shared(r, d) == [q \in Runs |-> d]

\* df is a local of main: the assignment at line 80 writes this run's df
StoreDf(r, d) == [df EXCEPT ![r] = d]

\* lines 76-80: the button is pressed; the horizon is converted to days and
\* the data is fetched.  source is the set of frames the download may return.
Fetch(r, source) ==
    /\ pc[r] = "idle"
    /\ \E o \in horizon_options, rows \in source :
          /\ forecast_days' = [forecast_days EXCEPT ![r] = horizon_mapping[o]]
          /\ stock_data' = [stock_data EXCEPT ![r] = rows]
          /\ df' = StoreDf(r, fetch_stock_data(rows))
    /\ calls' = [calls EXCEPT ![r] = Append(@, "fetch_stock_data")]
    /\ pc' = [pc EXCEPT ![r] = "fetched"]
    /\ UNCHANGED <<model, forecast, shown, metrics, scored, error>>

\* line 83: model = train_prophet_model(df); Prophet.fit may raise
Train(r) ==
    /\ pc[r] = "fetched"
    /\ calls' = [calls EXCEPT ![r] = Append(@, "fit")]
    /\ IF FitRaises(df[r])
       THEN /\ pc' = [pc EXCEPT ![r] = "error"]
            /\ error' = [error EXCEPT ![r] = "ValueError"]
            /\ UNCHANGED model
       ELSE /\ \E p \in TrendParams :
                 model' = [model EXCEPT ![r] = <<train_prophet_model(df[r], p)>>]
            /\ pc' = [pc EXCEPT ![r] = "trained"]
            /\ UNCHANGED error
    /\ UNCHANGED <<stock_data, forecast_days, df, forecast, shown, metrics, scored>>

\* variant: predict is called again on the fitted model
Forecast_Again(r) ==
    /\ pc[r] \in {"trained", "forecast"}
    /\ Len(calls[r]) < 4
    /\ calls' = [calls EXCEPT ![r] = Append(@, "predict")]
    /\ forecast' = [forecast EXCEPT ![r] =
                       <<make_forecast(model[r][1], forecast_days[r])>>]
    /\ pc' = [pc EXCEPT ![r] = "forecast"]
    /\ UNCHANGED <<stock_data, forecast_days, df, model, shown, metrics, scored, error>>

\* line 84: forecast = make_forecast(model, forecast_days)
Forecast(r) ==
    /\ pc[r] = "trained"
    /\ calls' = [calls EXCEPT ![r] = Append(@, "predict")]
    /\ forecast' = [forecast EXCEPT ![r] =
                       <<make_forecast(model[r][1], forecast_days[r])>>]
    /\ pc' = [pc EXCEPT ![r] = "forecast"]
    /\ UNCHANGED <<stock_data, forecast_days, df, model, shown, metrics, scored, error>>

\* lines 86-90: the forecast table is written to the page
ShowTable(r) ==
    /\ pc[r] = "forecast"
    /\ shown' = [shown EXCEPT ![r] = Append(@, "forecast table")]
    /\ pc' = [pc EXCEPT ![r] = "table"]
    /\ UNCHANGED <<stock_data, forecast_days, df, model, forecast, metrics,
                   scored, calls, error>>

\* lines 92-98: the forecast plot
ShowPlot(r) ==
    /\ pc[r] = "table"
    /\ shown' = [shown EXCEPT ![r] = Append(@, "forecast plot")]
    /\ pc' = [pc EXCEPT ![r] = "plot"]
    /\ UNCHANGED <<stock_data, forecast_days, df, model, forecast, metrics,
                   scored, calls, error>>

\* lines 100-106: the components plot
ShowComponents(r) ==
    /\ pc[r] = "plot"
    /\ shown' = [shown EXCEPT ![r] = Append(@, "components plot")]
    /\ pc' = [pc EXCEPT ![r] = "components"]
    /\ UNCHANGED <<stock_data, forecast_days, df, model, forecast, metrics,
                   scored, calls, error>>

\* lines 114-116: the metrics on df["y"] and the first len(df) yhat rows
Evaluate(r) ==
    /\ pc[r] = "components"
    /\ calls' = [calls EXCEPT ![r] = Append(@, "calculate_performance_metrics")]
    /\ LET actual == Actual(df[r])
           predicted == Predicted(df[r], forecast[r][1])
       IN  IF MetricsRaises(actual, predicted)
           THEN /\ pc' = [pc EXCEPT ![r] = "error"]
                /\ error' = [error EXCEPT ![r] = "ValueError"]
                /\ UNCHANGED <<metrics, scored>>
           ELSE /\ metrics' = [metrics EXCEPT ![r] =
                                  <<calculate_performance_metrics(actual, predicted)>>]
                /\ scored' = [scored EXCEPT ![r] = ScoredPairs(df[r], forecast[r][1])]
                /\ pc' = [pc EXCEPT ![r] = "evaluated"]
                /\ UNCHANGED error
    /\ UNCHANGED <<stock_data, forecast_days, df, model, forecast, shown>>

\* lines 117-131: the three st.metric widgets
ShowMetrics(r) ==
    /\ pc[r] = "evaluated"
    /\ shown' = [shown EXCEPT ![r] = @ \o <<"MAE", "MSE", "RMSE">>]
    /\ pc' = [pc EXCEPT ![r] = "done"]
    /\ UNCHANGED <<stock_data, forecast_days, df, model, forecast, metrics,
                   scored, calls, error>>

\* ---------------------------------------------------------- specifications
\* one run of the script
Next ==
    \/ Fetch("A", RawInputs)
    \/ Train("A")
    \/ Forecast("A")
    \/ ShowTable("A")
    \/ ShowPlot("A")
    \/ ShowComponents("A")
    \/ Evaluate("A")
    \/ ShowMetrics("A")

Spec == Init /\ [][Next]_vars

\* two runs of the script (two sessions), interleaved statement by statement
ConcInputs ==
    { <<[Date |-> 1, AdjClose |-> 1], [Date |-> 2, AdjClose |-> 2]>>,
      <<[Date |-> 2, AdjClose |-> 1], [Date |-> 1, AdjClose |-> 2]>>,
      <<[Date |-> 1, AdjClose |-> 2], [Date |-> 1, AdjClose |-> 1]>>,
      <<[Date |-> 1, AdjClose |-> NaN], [Date |-> 2, AdjClose |-> 1]>> }

NextConc ==
    \E r \in Runs :
        \/ Fetch(r, ConcInputs)
        \/ Train(r)
        \/ Forecast(r)
        \/ ShowTable(r)
        \/ ShowPlot(r)
        \/ ShowComponents(r)
        \/ Evaluate(r)
        \/ ShowMetrics(r)

SpecConc == Init /\ [][NextConc]_vars

\* train_prophet_model and make_forecast on their own: any frame, any
\* non-negative number of periods
InitPredict ==
    /\ pc = [r \in Runs |-> IF r = "A" THEN "fetched" ELSE "idle"]
    /\ \E rows \in RawInputs :
          /\ stock_data = [r \in Runs |-> IF r = "A" THEN rows ELSE <<>>]
          /\ df = [r \in Runs |-> IF r = "A" THEN fetch_stock_data(rows) ELSE <<>>]
    /\ \E n \in 0..MaxPeriods :
          forecast_days = [r \in Runs |-> IF r = "A" THEN n ELSE 0]
    /\ model = [r \in Runs |-> <<>>]
    /\ forecast = [r \in Runs |-> <<>>]
    /\ shown = [r \in Runs |-> <<>>]
    /\ metrics = [r \in Runs |-> <<>>]
    /\ scored = [r \in Runs |-> <<>>]
    /\ calls = [r \in Runs |-> IF r = "A" THEN <<"fetch_stock_data">> ELSE <<>>]
    /\ error = [r \in Runs |-> "none"]

NextPredict == Train("A") \/ Forecast("A")

SpecPredict == InitPredict /\ [][NextPredict]_vars

\* the forecast frames predict can return: any fitted model, any periods
ForecastFrames ==
    { make_forecast([history_dates |-> SortedSeq(S), k |-> p.k, m |-> p.m], n) :
        S \in (SUBSET Dates) \ {{}}, p \in TrendParams, n \in 0..MaxPeriods }

\* the frames the metrics are tried on
EvalInputs == {rows \in RawInputs : Len(rows) <= MaxEvalRows}

\* lines 114-116 on their own: any frame against any forecast
InitEval ==
    /\ pc = [r \in Runs |-> IF r = "A" THEN "components" ELSE "idle"]
    /\ \E rows \in EvalInputs :
          /\ stock_data = [r \in Runs |-> IF r = "A" THEN rows ELSE <<>>]
          /\ df = [r \in Runs |-> IF r = "A" THEN fetch_stock_data(rows) ELSE <<>>]
    /\ \E f \in ForecastFrames :
          forecast = [r \in Runs |-> IF r = "A" THEN <<f>> ELSE <<>>]
    /\ forecast_days = [r \in Runs |-> 0]
    /\ model = [r \in Runs |-> <<>>]
    /\ shown = [r \in Runs |-> <<>>]
    /\ metrics = [r \in Runs |-> <<>>]
    /\ scored = [r \in Runs |-> <<>>]
    /\ calls = [r \in Runs |-> <<>>]
    /\ error = [r \in Runs |-> "none"]

NextEval == Evaluate("A")

SpecEval == InitEval /\ [][NextEval]_vars

\* ------------------------------------------------------------------ claims
\* the pipeline functions, in the order main calls them
Pipeline == <<"fetch_stock_data", "fit", "predict", "calculate_performance_metrics">>

IsPrefix(s, t) == Len(s) <= Len(t) /\ \A i \in 1..Len(s) : s[i] = t[i]

\* the timestamps of a frame
DfDates(d) == {d[i].ds : i \in 1..Len(d)}

\* the last observed timestamp of a frame
LastObserved(d) == Max(DfDates(d))

\* run A has computed its metrics
Scored == pc["A"] \in {"evaluated", "done"}

\* C1: the metrics score exactly the pairs (actual, predicted) with equal
\* timestamps: every scored pair has one timestamp, and every timestamp in
\* both the frame and the forecast is scored once.
C1_ScoresMatchingTimestamps ==
    Scored =>
        /\ \A i \in 1..Len(scored["A"]) :
              scored["A"][i].actual_ds = scored["A"][i].predicted_ds
        /\ \A d \in DfDates(df["A"]) :
              (\E j \in 1..ForecastLen(forecast["A"][1]) :
                    ForecastDs(forecast["A"][1], j) = d)
              => Cardinality({i \in 1..Len(scored["A"]) :
                                 /\ scored["A"][i].actual_ds = d
                                 /\ scored["A"][i].predicted_ds = d}) = 1

\* C2: the stages run in the order prepare, fit, predict, evaluate, none of
\* them twice; a run that completes has run each exactly once.
C2_StagesInOrderOnce ==
    /\ IsPrefix(calls["A"], Pipeline)
    /\ pc["A"] \in {"forecast", "table", "plot", "components"}
          => calls["A"] = SubSeq(Pipeline, 1, 3)
    /\ pc["A"] \in {"evaluated", "done"} => calls["A"] = Pipeline

C2_Witness == pc["A"] = "done" /\ calls["A"] = Pipeline

\* C3: a run that fails has surfaced nothing, and a run that has ended with
\* the forecast on the page has its metrics.
C3_NothingSurfacedOnFailure ==
    /\ error["A"] # "none" => shown["A"] = <<>>
    /\ (pc["A"] \in {"done", "error"} /\ shown["A"] # <<>>) => metrics["A"] # <<>>

\* C5: the frame handed to the model is strictly ascending by timestamp, so
\* no two rows have one timestamp.
C5_PreparedStrictlyAscending ==
    pc["A"] # "idle" =>
        \A i, j \in 1..Len(df["A"]) : i < j => df["A"][i].ds < df["A"][j].ds

\* the frame of run A has fewer than 2 rows with a price
TooShort == pc["A"] # "idle" /\ Len(FitHistory(df["A"])) < 2

C8_NoFuturePointScored ==
    Scored =>
        \A i \in 1..Len(scored["A"]) :
            scored["A"][i].predicted_ds <= LastObserved(df["A"])

\* C4: the forecast holds every timestamp of the fitted frame and exactly
\* horizon_days timestamps after the last observed one, the consecutive days
\* after it, all timestamps strictly ascending.
C4_ForecastCoversHistoryAndHorizon ==
    forecast["A"] # <<>> =>
        LET ds == ForecastDates(forecast["A"][1])
            last == LastObserved(df["A"])
            n == forecast_days["A"]
        IN  /\ \A d \in DfDates(df["A"]) : \E j \in 1..Len(ds) : ds[j] = d
            /\ Cardinality({j \in 1..Len(ds) : ds[j] > last}) = n
            /\ {ds[j] : j \in {i \in 1..Len(ds) : ds[i] > last}} = (last + 1)..(last + n)
            /\ \A j \in 1..(Len(ds) - 1) : ds[j] < ds[j + 1]

C4_Witness ==
    /\ forecast["A"] # <<>>
    /\ forecast_days["A"] = 2
    /\ Len(df["A"]) = 3
    /\ Cardinality(DfDates(df["A"])) = 2
    /\ df["A"][1].ds > df["A"][3].ds

\* the timestamps of a forecast frame
ForecastDateSet(f) == {ForecastDs(f, j) : j \in 1..ForecastLen(f)}

\* C7: when the frame and the forecast share no timestamp, the evaluation
\* fails and leaves no metrics.
C7_NoOverlapFails ==
    (/\ pc["A"] \in {"evaluated", "error"}
     /\ DfDates(df["A"]) \cap ForecastDateSet(forecast["A"][1]) = {})
    => (metrics["A"] = <<>> /\ error["A"] # "none")

RECURSIVE AbsErrSum(_, _, _)
\* |a[1] - p[1]| + ... + |a[n] - p[n]|
AbsErrSum(a, p, n) ==
    IF n = 0 THEN 0
    ELSE AbsErrSum(a, p, n - 1) + (IF a[n] >= p[n] THEN a[n] - p[n] ELSE p[n] - a[n])

RECURSIVE SqErrSum(_, _, _)
\* (a[1] - p[1])^2 + ... + (a[n] - p[n])^2
SqErrSum(a, p, n) ==
    IF n = 0 THEN 0
    ELSE SqErrSum(a, p, n - 1) + (a[n] - p[n]) * (a[n] - p[n])

\* C10: on n >= 1 value pairs, MAE = (sum of |a - p|) / n,
\* MSE = (sum of (a - p)^2) / n, RMSE squared = MSE, and none is negative.
C10_MetricsFormulas ==
    metrics["A"] # <<>> =>
        LET a == Actual(df["A"])
            p == Predicted(df["A"], forecast["A"][1])
            n == Len(a)
            rep == metrics["A"][1]
        IN  /\ n >= 1 /\ Len(p) = n
            /\ rep.MAE.den = n /\ rep.MAE.num = AbsErrSum(a, p, n)
            /\ rep.MSE.den = n /\ rep.MSE.num = SqErrSum(a, p, n)
            /\ rep.RMSE.radicand = rep.MSE
            /\ rep.MAE.num >= 0 /\ rep.MSE.num >= 0 /\ rep.RMSE.radicand.num >= 0

C10_Witness ==
    /\ metrics["A"] # <<>>
    /\ Len(df["A"]) = 2
    /\ metrics["A"][1].MAE.num = 3
    /\ metrics["A"][1].MSE.num = 5

\* what run r holds is what its own download, horizon and fit give
OwnResults(r) ==
    /\ pc[r] = "idle" =>
          /\ df[r] = <<>> /\ model[r] = <<>> /\ forecast[r] = <<>>
          /\ metrics[r] = <<>> /\ shown[r] = <<>> /\ calls[r] = <<>>
    /\ pc[r] # "idle" => df[r] = fetch_stock_data(stock_data[r])
    /\ model[r] # <<>> =>
          /\ model[r][1].history_dates = HistoryDates(df[r])
          /\ [k |-> model[r][1].k, m |-> model[r][1].m] \in TrendParams
    /\ forecast[r] # <<>> =>
          forecast[r][1] = make_forecast(model[r][1], forecast_days[r])
    /\ metrics[r] # <<>> =>
          /\ metrics[r][1] = calculate_performance_metrics(
                                 Actual(df[r]), Predicted(df[r], forecast[r][1]))
          /\ scored[r] = ScoredPairs(df[r], forecast[r][1])

\* C9: two interleaved runs share no state: a statement of one run changes
\* nothing of the other, and each run's frame, forecast and metrics are the
\* ones its own inputs give.
C9_RunsIndependent ==
    /\ [](\A r \in Runs : OwnResults(r))
    /\ [][\A r \in Runs : pc'[r] = pc[r] => RunState(r)' = RunState(r)]_vars

C9_Witness ==
    /\ pc["A"] = "done" /\ pc["B"] = "done"
    /\ df["A"] # df["B"]
    /\ forecast_days["A"] # forecast_days["B"]
    /\ metrics["A"] # metrics["B"]

=============================================================================
